---- MODULE Spec2Model ----
(***************************************************************************)
(* Reminder scheduling subsystem of the task manager bot:                  *)
(*   - the reminders/tasks tables of DatabaseManager (the store),          *)
(*   - SmartReminderScheduler: the in-memory reminder_queue, the control   *)
(*     loop of start_scheduler and the schedule_task_reminder entry point. *)
(*                                                                         *)
(* Time is an integer number of minutes since midnight of day 0.  The      *)
(* control loop is one asyncio task: between two awaits that really        *)
(* suspend (the interruptible sleep and the delivery callback) its code    *)
(* runs without interleaving, so schedule_task_reminder, mark_task_done    *)
(* and the passage of time are interleaved only at those two points and    *)
(* before the loop is started.                                             *)
(***************************************************************************)
EXTENDS Integers, Sequences, FiniteSets, TLC

\* ---------------------------------------------------------------- bounds
MaxReminders == 2      \* rows ever inserted into the reminders table
MaxTasks == 1          \* rows of the tasks table
MaxDays == 3           \* the clock runs over days 0..MaxDays
MaxLate == 2           \* minutes after a full day at which the clock is observed
MaxFireOffset == 1     \* minutes after a base instant a fire time may lie
MaxFaults == 1         \* store operations that raise in one behaviour
MaxRestarts == 1       \* process restarts in one behaviour
MaxPolls == 3          \* check intervals over which the polling scheduler is observed

\* --------------------------------------------------- program constants
LOOKAHEAD_HOURS == 72
RELOAD_FROM_HOURS == 48
RELOAD_INTERVAL_HOURS == 24
RETENTION_DAYS == 7
CLEANUP_HOUR == 23
CLEANUP_MINUTE == 55
CONFIG_RELOAD_HOUR == 3
CONFIG_RELOAD_MINUTES == 5
FALLBACK_SLEEP_HOURS == 1
NoTime == -1           \* Python None of an Optional[datetime]

\* timedelta(hours=h) and timedelta(days=1), in minutes
Hours(h) == h * 60
DayMinutes == Hours(24)

\* datetime accessors on a minute count
DateOf(t) == t \div DayMinutes
HourOf(t) == (t % DayMinutes) \div 60
MinuteOf(t) == t % 60
\* now.replace(hour=h, minute=m, second=0, microsecond=0)
ReplaceClock(t, h, m) == DateOf(t) * DayMinutes + Hours(h) + m

\* Instants at which the clock is observed: on every day the first minutes
\* after midnight and the two clock times of the maintenance policies, so
\* that every wake time the loop computes (a fire time, the last reload + 24h,
\* the next 23:55, the next 03:00) is an observed instant.
TimeGrid ==
    { d * DayMinutes + j : d \in 0..MaxDays, j \in 0..MaxLate }
    \cup { d * DayMinutes + Hours(CONFIG_RELOAD_HOUR) : d \in 0..MaxDays }
    \cup { d * DayMinutes + Hours(CLEANUP_HOUR) + CLEANUP_MINUTE : d \in 0..MaxDays }
\* fire times a caller may pass: around the start and around start + 72h
FireTimes == { b + j : b \in {0, Hours(LOOKAHEAD_HOURS)}, j \in 0..MaxFireOffset }

TaskIds == 1..MaxTasks

VARIABLES
    now,                \* datetime.now()
    tasks,              \* tasks table: task id -> status
    reminders,          \* reminders table: id -> [task_id, reminder_time, is_sent]
    last_rowid,         \* AUTOINCREMENT counter of the reminders table
    reminder_queue,     \* SmartReminderScheduler.reminder_queue
    is_running,
    wake_event,         \* asyncio.Event: TRUE when set
    last_daily_reload,
    last_cleanup,
    last_config_reload,
    pc,                 \* position of the start_scheduler coroutine
    wake_time,          \* argument of the sleep_until in progress
    drain_now,          \* 'now' captured by process_due_reminders
    current,            \* entry whose delivery callback is awaited (<<>> if none)
    calls,              \* history: reminder id -> number of callback invocations
    acked,              \* history: ids whose callback returned without raising
    beyond,             \* history: ids that were beyond the lookahead when scheduled
    drain_start,        \* history: the queue when the current drain pass began
    popped,             \* history: entries popped so far by the current drain pass
    schedule_outcome,   \* what the last schedule_task_reminder call gave its caller
    failed,             \* history: the store operations that raised, in order
    restarts,           \* history: number of process restarts
    structured,         \* argument of the _schedule_reminders call under study
    registered,         \* history: the schedule_task_reminder calls it made
    pending_reminders   \* ReminderScheduler: rows of its query not yet iterated

vars == << now, tasks, reminders, last_rowid, reminder_queue, is_running,
           wake_event, last_daily_reload, last_cleanup, last_config_reload,
           pc, wake_time, drain_now, current, calls, acked, beyond, drain_start, popped,
           schedule_outcome, failed, restarts, structured, registered,
           pending_reminders >>

\* the variables only the fault, restart and derivation steps change
aux == << failed, restarts, structured, registered, pending_reminders >>

\* ------------------------------------------------------------- Reminder
\* dataclass Reminder (the fields the scheduler's control flow reads)
Reminder(id, task_id, time) == [id |-> id, task_id |-> task_id, time |-> time]

\* variant: the comparison also holds between entries of equal time
ReminderLe(a, b) == a.time <= b.time

\* Reminder.__lt__
ReminderLt(a, b) == a.time < b.time

\* list.sort() with __lt__: a stable sort, computed as an insertion sort that
\* places each element after every earlier element that is not greater
RECURSIVE InsertSorted(_, _)
InsertSorted(e, s) ==
    IF s = << >> THEN << e >>
    ELSE IF ReminderLt(e, s[Len(s)]) THEN Append(InsertSorted(e, SubSeq(s, 1, Len(s) - 1)), s[Len(s)])
    ELSE Append(s, e)

RECURSIVE SortQueue(_)
SortQueue(s) ==
    IF s = << >> THEN << >>
    ELSE InsertSorted(s[Len(s)], SortQueue(SubSeq(s, 1, Len(s) - 1)))

QueueIds(q) == { q[i].id : i \in 1..Len(q) }
Occurrences(q, id) == Cardinality({ i \in 1..Len(q) : q[i].id = id })

\* ------------------------------------------------------ DatabaseManager
\* variant: the insert also resets the flag of the other rows of the task
AddReminderRowResetsTask(rows, id, task_id, reminder_time) ==
    [r \in DOMAIN rows |->
        IF rows[r].task_id = task_id THEN [rows[r] EXCEPT !.is_sent = FALSE] ELSE rows[r]]
    @@ (id :> [task_id |-> task_id, reminder_time |-> reminder_time, is_sent |-> FALSE])

\* add_reminder: INSERT with AUTOINCREMENT id, is_sent DEFAULT FALSE
AddReminderRow(rows, id, task_id, reminder_time) ==
    rows @@ (id :> [task_id |-> task_id, reminder_time |-> reminder_time, is_sent |-> FALSE])

\* variant: the UPDATE flips the flag
MarkReminderSentFlips(rows, id) ==
    [r \in DOMAIN rows |-> IF r = id THEN [rows[r] EXCEPT !.is_sent = ~@] ELSE rows[r]]

\* mark_reminder_sent: UPDATE reminders SET is_sent = TRUE WHERE id = ?
MarkReminderSent(rows, id) ==
    [r \in DOMAIN rows |-> IF r = id THEN [rows[r] EXCEPT !.is_sent = TRUE] ELSE rows[r]]

\* variant: the window excludes its first instant
FutureReminderIdsStrictStart(rows, tsk, t, hours, from_hours) ==
    { id \in DOMAIN rows :
        /\ rows[id].is_sent = FALSE
        /\ rows[id].reminder_time > t + Hours(from_hours)
        /\ rows[id].reminder_time <= t + Hours(hours)
        /\ tsk[rows[id].task_id] = "active" }

\* WHERE clause of get_future_reminders
FutureReminderIds(rows, tsk, t, hours, from_hours) ==
    { id \in DOMAIN rows :
        /\ rows[id].is_sent = FALSE
        /\ rows[id].reminder_time >= t + Hours(from_hours)
        /\ rows[id].reminder_time <= t + Hours(hours)
        /\ tsk[rows[id].task_id] = "active" }

\* variant: the query does not look at the sent flag
PendingReminderIdsAnyFlag(rows, tsk, t) ==
    { id \in DOMAIN rows :
        /\ rows[id].reminder_time <= t
        /\ tsk[rows[id].task_id] = "active" }

\* WHERE clause of get_pending_reminders
PendingReminderIds(rows, tsk, t) ==
    { id \in DOMAIN rows :
        /\ rows[id].is_sent = FALSE
        /\ rows[id].reminder_time <= t
        /\ tsk[rows[id].task_id] = "active" }

\* ORDER BY r.reminder_time ASC (rows of equal time in rowid order)
RECURSIVE OrderByTime(_, _)
OrderByTime(rows, ids) ==
    IF ids = {} THEN << >>
    ELSE LET first == CHOOSE a \in ids : \A b \in ids :
                         \/ rows[a].reminder_time < rows[b].reminder_time
                         \/ rows[a].reminder_time = rows[b].reminder_time /\ a <= b
         IN << Reminder(first, rows[first].task_id, rows[first].reminder_time) >>
            \o OrderByTime(rows, ids \ {first})

\* get_future_reminders mapped to Reminder objects
GetFutureReminders(rows, tsk, t, hours, from_hours) ==
    OrderByTime(rows, FutureReminderIds(rows, tsk, t, hours, from_hours))

\* variant: the DELETE does not look at the sent flag
DeleteOldRemindersAnyFlag(rows, t, days_old) ==
    LET cutoff == t - days_old * DayMinutes
        keep == { id \in DOMAIN rows : ~(rows[id].reminder_time < cutoff) }
    IN [id \in keep |-> rows[id]]

\* delete_old_reminders: DELETE WHERE is_sent = TRUE AND reminder_time < cutoff
DeleteOldReminders(rows, t, days_old) ==
    LET cutoff == t - days_old * DayMinutes
        keep == { id \in DOMAIN rows : ~(rows[id].is_sent /\ rows[id].reminder_time < cutoff) }
    IN [id \in keep |-> rows[id]]

\* ------------------------------------------------------------------ Init
Init ==
    /\ now = 0
    /\ tasks = [t \in TaskIds |-> "active"]
    /\ reminders = << >>
    /\ last_rowid = 0
    /\ reminder_queue = << >>
    /\ is_running = FALSE
    /\ wake_event = FALSE
    /\ last_daily_reload = NoTime
    /\ last_cleanup = NoTime
    /\ last_config_reload = NoTime
    /\ pc = "init"
    /\ wake_time = NoTime
    /\ drain_now = NoTime
    /\ current = << >>
    /\ calls = [id \in 1..MaxReminders |-> 0]
    /\ acked = {}
    /\ beyond = {}
    /\ drain_start = << >>
    /\ popped = << >>
    /\ schedule_outcome = "none"
    /\ failed = << >>
    /\ restarts = 0
    /\ structured = << >>
    /\ registered = << >>
    /\ pending_reminders = {}

\* ------------------------------------------------------------ environment
\* the control loop is suspended (or not started): other coroutines may run
Suspended == pc \in {"init", "sleep", "deliver"}

\* Time passes to the next observed instant.  start_scheduler is called
\* within the first minutes of day 0.  A sleeping loop resumes at most MaxLate
\* minutes after its timeout expired or its wake event was set; the awaited
\* delivery callback has no timeout and may take any time.
Tick ==
    /\ Suspended
    /\ \E t \in TimeGrid :
        /\ t > now
        /\ \A u \in TimeGrid : u > now => t <= u
        /\ pc = "init" => t <= MaxLate
        /\ pc = "sleep" => t <= wake_time + MaxLate
        /\ (pc = "sleep" /\ wake_event) => t <= now + MaxLate
        /\ now' = t
    /\ UNCHANGED << tasks, reminders, last_rowid, reminder_queue, is_running,
                    wake_event, last_daily_reload, last_cleanup, last_config_reload,
                    pc, wake_time, drain_now, current, calls, acked, beyond, drain_start, popped >>
    /\ UNCHANGED << schedule_outcome, aux >>

\* ------------------------------------------------ SmartReminderScheduler
\* variant: append without the re-sort
AddReminderToQueueUnsorted(q, r) == Append(q, r)

\* add_reminder_to_queue: the queue after append + sort
AddReminderToQueue(q, r) == SortQueue(Append(q, r))

\* variant: the inserted entry is compared with the last entry of the queue
BecameEarliestLast(q, r) == q[Len(q)] = r

\* add_reminder_to_queue: "if self.reminder_queue[0] == reminder"
BecameEarliest(q, r) == q[1] = r

\* variant: the distance is taken in days but compared with the hour limit
WithinLookaheadWrongUnit(reminder_time, t) == (reminder_time - t) \div DayMinutes <= LOOKAHEAD_HOURS

\* schedule_task_reminder: "hours_until <= 72"
WithinLookahead(reminder_time, t) == reminder_time - t <= Hours(LOOKAHEAD_HOURS)

\* schedule_task_reminder(task_id, user_id, reminder_time, reminder_type)
ScheduleTaskReminder(task_id, reminder_time) ==
    /\ Suspended
    /\ last_rowid < MaxReminders
    /\ LET id == last_rowid + 1
           r == Reminder(id, task_id, reminder_time)
           q == AddReminderToQueue(reminder_queue, r)
       IN /\ reminders' = AddReminderRow(reminders, id, task_id, reminder_time)
          /\ last_rowid' = id
          /\ IF WithinLookahead(reminder_time, now)
             THEN /\ reminder_queue' = q
                  /\ wake_event' = (wake_event \/ BecameEarliest(q, r))
                  /\ beyond' = beyond
             ELSE /\ beyond' = beyond \cup { id }
                  /\ UNCHANGED << reminder_queue, wake_event >>
    /\ UNCHANGED << now, tasks, is_running, last_daily_reload, last_cleanup,
                    last_config_reload, pc, wake_time, drain_now, current,
                    calls, acked, drain_start, popped >>
    /\ schedule_outcome' = "returned"
    /\ UNCHANGED aux

\* DatabaseManager.mark_task_done, called by the chat handlers
MarkTaskDone(task_id) ==
    /\ Suspended
    /\ tasks[task_id] = "active"
    /\ tasks' = [tasks EXCEPT ![task_id] = "done"]
    /\ UNCHANGED << now, reminders, last_rowid, reminder_queue, is_running,
                    wake_event, last_daily_reload, last_cleanup, last_config_reload,
                    pc, wake_time, drain_now, current, calls, acked, beyond, drain_start, popped >>
    /\ UNCHANGED << schedule_outcome, aux >>

\* start_scheduler, up to the call of load_initial_reminders
StartScheduler ==
    /\ pc = "init"
    /\ is_running' = TRUE
    /\ pc' = "load"
    /\ UNCHANGED << now, tasks, reminders, last_rowid, reminder_queue,
                    wake_event, last_daily_reload, last_cleanup, last_config_reload,
                    wake_time, drain_now, current, calls, acked, beyond, drain_start, popped >>
    /\ UNCHANGED << schedule_outcome, aux >>

\* variant: the startup query reaches one reload interval past the lookahead
InitialQueueWiderWindow(rows, tsk, t) ==
    SortQueue(GetFutureReminders(rows, tsk, t, LOOKAHEAD_HOURS + RELOAD_INTERVAL_HOURS, 0))

\* load_initial_reminders: the queue it builds
InitialQueue(rows, tsk, t) == SortQueue(GetFutureReminders(rows, tsk, t, LOOKAHEAD_HOURS, 0))

LoadInitialReminders ==
    /\ pc = "load"
    /\ reminder_queue' = InitialQueue(reminders, tasks, now)
    /\ last_daily_reload' = now
    /\ pc' = "check"
    /\ UNCHANGED << now, tasks, reminders, last_rowid, is_running, wake_event,
                    last_cleanup, last_config_reload, wake_time, drain_now,
                    current, calls, acked, beyond, drain_start, popped >>
    /\ UNCHANGED << schedule_outcome, aux >>

\* variant: the reload is due as soon as the fallback sleep of 1h has elapsed
ShouldReloadDbHourly(t, last) ==
    IF last = NoTime THEN FALSE
    ELSE t - last >= Hours(FALLBACK_SLEEP_HOURS)

\* should_reload_db
ShouldReloadDb(t, last) ==
    IF last = NoTime THEN FALSE
    ELSE t - last >= Hours(RELOAD_INTERVAL_HOURS)

\* should_cleanup_db / should_reload_config: the timestamp after the
\* "if not self.last_...: self.last_... = now.replace(hour=0, minute=0, second=0)"
DefaultedStamp(t, last) == IF last = NoTime THEN ReplaceClock(t, 0, 0) ELSE last

\* variant: the date of the last cleanup is not compared
ShouldCleanupDbAnyDate(t, last) ==
    /\ HourOf(t) = CLEANUP_HOUR
    /\ MinuteOf(t) >= CLEANUP_MINUTE

\* should_cleanup_db, on the defaulted timestamp
ShouldCleanupDb(t, last) ==
    /\ HourOf(t) = CLEANUP_HOUR
    /\ MinuteOf(t) >= CLEANUP_MINUTE
    /\ DateOf(t) > DateOf(last)

\* should_reload_config, on the defaulted timestamp
ShouldReloadConfig(t, last) ==
    /\ HourOf(t) = CONFIG_RELOAD_HOUR
    /\ MinuteOf(t) < CONFIG_RELOAD_MINUTES
    /\ DateOf(t) > DateOf(last)

\* reload_next_day_reminders: the queue after extend + sort
ReloadedQueue(q, rows, tsk, t) ==
    SortQueue(q \o GetFutureReminders(rows, tsk, t, LOOKAHEAD_HOURS, RELOAD_FROM_HOURS))

\* check_daily_tasks, entered through "while self.is_running"
CheckDailyTasks ==
    /\ pc = "check"
    /\ is_running
    /\ IF ShouldReloadDb(now, last_daily_reload)
       THEN /\ reminder_queue' = ReloadedQueue(reminder_queue, reminders, tasks, now)
            /\ last_daily_reload' = now
       ELSE UNCHANGED << reminder_queue, last_daily_reload >>
    /\ LET lc == DefaultedStamp(now, last_cleanup)
       IN IF ShouldCleanupDb(now, lc)
          THEN /\ reminders' = DeleteOldReminders(reminders, now, RETENTION_DAYS)
               /\ last_cleanup' = now
          ELSE /\ reminders' = reminders
               /\ last_cleanup' = lc
    /\ LET lr == DefaultedStamp(now, last_config_reload)
       IN last_config_reload' = IF ShouldReloadConfig(now, lr) THEN now ELSE lr
    /\ pc' = "compute"
    /\ UNCHANGED << now, tasks, last_rowid, is_running, wake_event, wake_time,
                    drain_now, current, calls, acked, beyond, drain_start, popped >>
    /\ UNCHANGED << schedule_outcome, aux >>

\* next occurrence of the clock time h:m as get_next_wake_time computes it
NextClock(t, h, m) ==
    LET today == ReplaceClock(t, h, m)
    IN IF today <= t THEN today + DayMinutes ELSE today

SetMin(S) == CHOOSE x \in S : \A y \in S : x <= y

\* variant: the queue head is not among the candidates
GetNextWakeTimeIgnoresQueue(q, last, t) ==
    LET candidates ==
            { IF last # NoTime THEN last + Hours(RELOAD_INTERVAL_HOURS)
              ELSE t + Hours(RELOAD_INTERVAL_HOURS) }
            \cup { NextClock(t, CLEANUP_HOUR, CLEANUP_MINUTE) }
            \cup { NextClock(t, CONFIG_RELOAD_HOUR, 0) }
        future_times == { c \in candidates : c > t }
    IN IF future_times # {} THEN SetMin(future_times)
       ELSE t + Hours(FALLBACK_SLEEP_HOURS)

\* get_next_wake_time
GetNextWakeTime(q, last, t) ==
    LET candidates ==
            (IF q # << >> THEN { q[1].time } ELSE {})
            \cup { IF last # NoTime THEN last + Hours(RELOAD_INTERVAL_HOURS)
                   ELSE t + Hours(RELOAD_INTERVAL_HOURS) }
            \cup { NextClock(t, CLEANUP_HOUR, CLEANUP_MINUTE) }
            \cup { NextClock(t, CONFIG_RELOAD_HOUR, 0) }
        future_times == { c \in candidates : c > t }
    IN IF future_times # {} THEN SetMin(future_times)
       ELSE t + Hours(FALLBACK_SLEEP_HOURS)

\* variant: the event is cleared before the wait starts (edge-triggered)
EventAtSleepStartCleared(ev) == FALSE

\* sleep_until: the event as wait_for(self.wake_event.wait()) finds it; nothing
\* clears it between its set() and the wait
EventAtSleepStart(ev) == ev

\* get_next_wake_time followed by sleep_until up to its wait_for
SleepUntil ==
    /\ pc = "compute"
    /\ LET wt == GetNextWakeTime(reminder_queue, last_daily_reload, now)
       IN IF wt - now <= 0
          THEN wake_time' = NoTime /\ pc' = "process"
          ELSE wake_time' = wt /\ pc' = "sleep"
    /\ wake_event' = EventAtSleepStart(wake_event)
    /\ UNCHANGED << now, tasks, reminders, last_rowid, reminder_queue, is_running,
                    last_daily_reload, last_cleanup, last_config_reload,
                    drain_now, current, calls, acked, beyond, drain_start, popped >>
    /\ UNCHANGED << schedule_outcome, aux >>

\* sleep_until: wake_event.wait() returned; the event is cleared
WakeByEvent ==
    /\ pc = "sleep"
    /\ wake_event
    /\ wake_event' = FALSE
    /\ wake_time' = NoTime
    /\ pc' = "process"
    /\ UNCHANGED << now, tasks, reminders, last_rowid, reminder_queue, is_running,
                    last_daily_reload, last_cleanup, last_config_reload,
                    drain_now, current, calls, acked, beyond, drain_start, popped >>
    /\ UNCHANGED << schedule_outcome, aux >>

\* sleep_until: asyncio.TimeoutError
WakeByTimeout ==
    /\ pc = "sleep"
    /\ now >= wake_time
    /\ wake_time' = NoTime
    /\ pc' = "process"
    /\ UNCHANGED << now, tasks, reminders, last_rowid, reminder_queue, is_running,
                    wake_event, last_daily_reload, last_cleanup, last_config_reload,
                    drain_now, current, calls, acked, beyond, drain_start, popped >>
    /\ UNCHANGED << schedule_outcome, aux >>

\* process_due_reminders: "now = datetime.now()"
BeginProcess ==
    /\ pc = "process"
    /\ drain_now' = now
    /\ drain_start' = reminder_queue
    /\ popped' = << >>
    /\ pc' = "drain"
    /\ UNCHANGED << now, tasks, reminders, last_rowid, reminder_queue, is_running,
                    wake_event, last_daily_reload, last_cleanup, last_config_reload,
                    wake_time, current, calls, acked, beyond >>
    /\ UNCHANGED << schedule_outcome, aux >>

\* variant: strict comparison in the while condition
HeadIsDueStrict(q, t) == q # << >> /\ q[1].time < t

\* process_due_reminders: the while condition
HeadIsDue(q, t) == q # << >> /\ q[1].time <= t

\* variant: the while condition only asks whether the queue is non-empty
PopDueAnyHead ==
    /\ pc = "drain"
    /\ reminder_queue # << >>
    /\ current' = Head(reminder_queue)
    /\ reminder_queue' = Tail(reminder_queue)
    /\ calls' = [calls EXCEPT ![Head(reminder_queue).id] = @ + 1]
    /\ popped' = Append(popped, Head(reminder_queue))
    /\ pc' = "deliver"
    /\ UNCHANGED << now, tasks, reminders, last_rowid, is_running, wake_event,
                    last_daily_reload, last_cleanup, last_config_reload,
                    wake_time, drain_now, acked, beyond, drain_start >>
    /\ UNCHANGED << schedule_outcome, aux >>

\* process_due_reminders: pop(0) and the call of send_reminder_callback
PopDue ==
    /\ pc = "drain"
    /\ HeadIsDue(reminder_queue, drain_now)
    /\ current' = Head(reminder_queue)
    /\ reminder_queue' = Tail(reminder_queue)
    /\ calls' = [calls EXCEPT ![Head(reminder_queue).id] = @ + 1]
    /\ popped' = Append(popped, Head(reminder_queue))
    /\ pc' = "deliver"
    /\ UNCHANGED << now, tasks, reminders, last_rowid, is_running, wake_event,
                    last_daily_reload, last_cleanup, last_config_reload,
                    wake_time, drain_now, acked, beyond, drain_start >>
    /\ UNCHANGED << schedule_outcome, aux >>

\* process_due_reminders: the while condition is false, back to the main loop
EndProcess ==
    /\ pc = "drain"
    /\ ~HeadIsDue(reminder_queue, drain_now)
    /\ drain_now' = NoTime
    /\ drain_start' = << >>
    /\ popped' = << >>
    /\ pc' = "check"
    /\ UNCHANGED << now, tasks, reminders, last_rowid, reminder_queue, is_running,
                    wake_event, last_daily_reload, last_cleanup, last_config_reload,
                    wake_time, current, calls, acked, beyond >>
    /\ UNCHANGED << schedule_outcome, aux >>

\* process_due_reminders: the store after the callback returned
AfterDelivery(rows, id) == MarkReminderSent(rows, id)

\* variant: mark_reminder_sent placed where the except branch also reaches it
AfterFailureMarksSent(rows, id) == MarkReminderSent(rows, id)

\* process_due_reminders: the store after the callback raised (except branch)
AfterFailure(rows, id) == rows

\* variant: the try/except wraps the whole while loop, a failure ends the pass
AfterFailureEndsPass == "check"

\* process_due_reminders: where the loop continues after the except branch
AfterFailurePc == "drain"

\* the awaited send_reminder_callback returns
CallbackReturns ==
    /\ pc = "deliver"
    /\ reminders' = AfterDelivery(reminders, current.id)
    /\ acked' = acked \cup { current.id }
    /\ current' = << >>
    /\ pc' = "drain"
    /\ UNCHANGED << now, tasks, last_rowid, reminder_queue, is_running, wake_event,
                    last_daily_reload, last_cleanup, last_config_reload,
                    wake_time, drain_now, calls, beyond, drain_start, popped >>
    /\ UNCHANGED << schedule_outcome, aux >>

\* the awaited send_reminder_callback raises
CallbackRaises ==
    /\ pc = "deliver"
    /\ reminders' = AfterFailure(reminders, current.id)
    /\ current' = << >>
    /\ pc' = AfterFailurePc
    /\ UNCHANGED << now, tasks, last_rowid, reminder_queue, is_running, wake_event,
                    last_daily_reload, last_cleanup, last_config_reload,
                    wake_time, drain_now, calls, acked, beyond, drain_start, popped >>
    /\ UNCHANGED << schedule_outcome, aux >>

Next ==
    \/ Tick
    \/ \E task_id \in TaskIds, reminder_time \in FireTimes :
           ScheduleTaskReminder(task_id, reminder_time)
    \/ \E task_id \in TaskIds : MarkTaskDone(task_id)
    \/ StartScheduler
    \/ LoadInitialReminders
    \/ CheckDailyTasks
    \/ SleepUntil
    \/ WakeByEvent
    \/ WakeByTimeout
    \/ BeginProcess
    \/ PopDue
    \/ EndProcess
    \/ CallbackReturns
    \/ CallbackRaises

Spec == Init /\ [][Next]_vars

\* --------------------------------------------------------- store failures
\* The sqlite calls of DatabaseManager may raise.  Each action below is the
\* handler of the corresponding fault-free action with the store call raising.
StoreMayFail == Len(failed) < MaxFaults

\* variant: the exception leaves load_initial_reminders, which start_scheduler
\* calls outside the try of its while loop, and ends the coroutine
AfterLoadFailureUncaughtPc == "stopped"

\* load_initial_reminders: the except branch logs and returns to start_scheduler
AfterLoadFailurePc == "check"

\* load_initial_reminders with get_future_reminders raising: neither the queue
\* nor last_daily_reload is assigned
LoadInitialRemindersFails ==
    /\ pc = "load"
    /\ StoreMayFail
    /\ failed' = Append(failed, "load")
    /\ pc' = AfterLoadFailurePc
    /\ UNCHANGED << now, tasks, reminders, last_rowid, reminder_queue, is_running,
                    wake_event, last_daily_reload, last_cleanup, last_config_reload,
                    wake_time, drain_now, current, calls, acked, beyond, drain_start,
                    popped, schedule_outcome, restarts, structured, registered,
                    pending_reminders >>

\* check_daily_tasks with the query of reload_next_day_reminders or the delete
\* of cleanup_old_reminders raising: the except branch of that method logs,
\* check_daily_tasks still records the timestamp
CheckDailyTasksStoreFails ==
    /\ pc = "check"
    /\ is_running
    /\ StoreMayFail
    /\ \E op \in {"reload", "cleanup"} :
        LET lc == DefaultedStamp(now, last_cleanup)
        IN /\ op = "reload" => ShouldReloadDb(now, last_daily_reload)
           /\ op = "cleanup" => ShouldCleanupDb(now, lc)
           /\ failed' = Append(failed, op)
           /\ IF ShouldReloadDb(now, last_daily_reload)
              THEN /\ reminder_queue' =
                        IF op = "reload" THEN reminder_queue
                        ELSE ReloadedQueue(reminder_queue, reminders, tasks, now)
                   /\ last_daily_reload' = now
              ELSE UNCHANGED << reminder_queue, last_daily_reload >>
           /\ IF ShouldCleanupDb(now, lc)
              THEN /\ reminders' =
                        IF op = "cleanup" THEN reminders
                        ELSE DeleteOldReminders(reminders, now, RETENTION_DAYS)
                   /\ last_cleanup' = now
              ELSE /\ reminders' = reminders
                   /\ last_cleanup' = lc
    /\ LET lr == DefaultedStamp(now, last_config_reload)
       IN last_config_reload' = IF ShouldReloadConfig(now, lr) THEN now ELSE lr
    /\ pc' = "compute"
    /\ UNCHANGED << now, tasks, last_rowid, is_running, wake_event, wake_time,
                    drain_now, current, calls, acked, beyond, drain_start, popped,
                    schedule_outcome, restarts, structured, registered,
                    pending_reminders >>

\* process_due_reminders: the callback returned and mark_reminder_sent raises;
\* the except branch of the loop body logs and the while loop goes on
MarkReminderSentFails ==
    /\ pc = "deliver"
    /\ StoreMayFail
    /\ failed' = Append(failed, "mark_sent")
    /\ acked' = acked \cup { current.id }
    /\ current' = << >>
    /\ pc' = "drain"
    /\ UNCHANGED << now, tasks, reminders, last_rowid, reminder_queue, is_running,
                    wake_event, last_daily_reload, last_cleanup, last_config_reload,
                    wake_time, drain_now, calls, beyond, drain_start, popped,
                    schedule_outcome, restarts, structured, registered,
                    pending_reminders >>

\* schedule_task_reminder: what the caller gets when add_reminder raised; the
\* except branch logs and the method returns None as after a success
ScheduleFailureOutcome == "returned"

\* variant: the insertion into the queue is not skipped when add_reminder
\* raised; the entry carries what get_last_reminder_id then returns
QueueAfterAddFailureInserted(q, task_id, reminder_time, rowid) ==
    AddReminderToQueue(q, Reminder(rowid, task_id, reminder_time))

\* schedule_task_reminder: add_reminder is the first statement of the try, so
\* when it raises control is in the except branch and the queue is untouched
QueueAfterAddFailure(q, task_id, reminder_time, rowid) == q

\* schedule_task_reminder with add_reminder raising: no row, no queue entry
ScheduleTaskReminderFails(task_id, reminder_time) ==
    /\ Suspended
    /\ last_rowid < MaxReminders
    /\ StoreMayFail
    /\ failed' = Append(failed, "add_reminder")
    /\ schedule_outcome' = ScheduleFailureOutcome
    /\ reminder_queue' = QueueAfterAddFailure(reminder_queue, task_id, reminder_time, last_rowid)
    /\ UNCHANGED << now, tasks, reminders, last_rowid, is_running,
                    wake_event, last_daily_reload, last_cleanup, last_config_reload,
                    pc, wake_time, drain_now, current, calls, acked, beyond,
                    drain_start, popped, restarts, structured, registered,
                    pending_reminders >>

FaultNext ==
    \/ Next
    \/ LoadInitialRemindersFails
    \/ CheckDailyTasksStoreFails
    \/ MarkReminderSentFails
    \/ \E task_id \in TaskIds, reminder_time \in FireTimes :
           ScheduleTaskReminderFails(task_id, reminder_time)

FaultSpec == Init /\ [][FaultNext]_vars

\* -------------------------------------------------------- process restart
\* The process dies at any point after start_scheduler was called and is
\* started again at once: the SmartReminderScheduler object is constructed
\* anew (__init__), the store keeps its rows.
Restart ==
    /\ pc # "init"
    /\ restarts < MaxRestarts
    /\ restarts' = restarts + 1
    /\ reminder_queue' = << >>
    /\ is_running' = FALSE
    /\ wake_event' = FALSE
    /\ last_daily_reload' = NoTime
    /\ last_cleanup' = NoTime
    /\ last_config_reload' = NoTime
    /\ pc' = "init"
    /\ wake_time' = NoTime
    /\ drain_now' = NoTime
    /\ current' = << >>
    /\ drain_start' = << >>
    /\ popped' = << >>
    /\ schedule_outcome' = "none"
    /\ UNCHANGED << now, tasks, reminders, last_rowid, calls, acked, beyond,
                    failed, structured, registered,
                    pending_reminders >>

RestartNext ==
    \/ Next
    \/ Restart

RestartSpec == Init /\ [][RestartNext]_vars

\* ------------------------------------------------------ maintenance clock
\* The maintenance stage taken on its own: check_daily_tasks is entered at
\* arbitrary times of day over a store that holds old rows, the queue being
\* empty, so that between two checks the loop only computes a wake time,
\* sleeps (until a timer or a wake signal) and finds nothing due.
ClockMinutes ==
    { Hours(CONFIG_RELOAD_HOUR), Hours(CONFIG_RELOAD_HOUR) + CONFIG_RELOAD_MINUTES - 1,
      Hours(CONFIG_RELOAD_HOUR) + CONFIG_RELOAD_MINUTES, Hours(10),
      Hours(CLEANUP_HOUR) + CLEANUP_MINUTE - 1, Hours(CLEANUP_HOUR) + CLEANUP_MINUTE,
      DayMinutes - 1 }
ClockTimes == { d * DayMinutes + c : d \in 0..MaxDays, c \in ClockMinutes }

\* fire times of the rows the store holds at the start: around the cutoff
\* (now - 7 days) of the cleanup at 23:55 of day 1
OldFireTimes ==
    { DayMinutes + Hours(CLEANUP_HOUR) + CLEANUP_MINUTE - RETENTION_DAYS * DayMinutes + j :
        j \in -1..1 }
OldRows == [task_id : TaskIds, reminder_time : OldFireTimes, is_sent : BOOLEAN]

\* the scheduler right after start_scheduler has loaded, at some time of day 0
ClockInit ==
    /\ now \in { t \in ClockTimes : DateOf(t) = 0 }
    /\ tasks = [t \in TaskIds |-> "active"]
    /\ \E n \in 0..MaxReminders :
          /\ reminders \in [1..n -> OldRows]
          /\ last_rowid = n
    /\ reminder_queue = << >>
    /\ is_running = TRUE
    /\ wake_event = FALSE
    /\ last_daily_reload = now
    /\ last_cleanup = NoTime
    /\ last_config_reload = NoTime
    /\ pc = "check"
    /\ wake_time = NoTime
    /\ drain_now = NoTime
    /\ current = << >>
    /\ calls = [id \in 1..MaxReminders |-> 0]
    /\ acked = {}
    /\ beyond = {}
    /\ drain_start = << >>
    /\ popped = << >>
    /\ schedule_outcome = "none"
    /\ failed = << >>
    /\ restarts = 0
    /\ structured = << >>
    /\ registered = << >>
    /\ pending_reminders = {}

\* start_scheduler, steps 2 to 4 of an iteration with an empty queue: the
\* loop is back at check_daily_tasks at a later time
ClockResume ==
    /\ pc = "compute"
    /\ reminder_queue = << >>
    /\ \E t \in ClockTimes : t > now /\ now' = t
    /\ pc' = "check"
    /\ UNCHANGED << tasks, reminders, last_rowid, reminder_queue, is_running,
                    wake_event, last_daily_reload, last_cleanup, last_config_reload,
                    wake_time, drain_now, current, calls, acked, beyond, drain_start,
                    popped, schedule_outcome, aux >>

ClockNext ==
    \/ CheckDailyTasks
    \/ ClockResume

ClockSpec == ClockInit /\ [][ClockNext]_vars

\* --------------------------------------------------- reminder derivation
\* TaskHandlers._schedule_reminders with the default configuration.  The
\* argument is the structured task: due_date as a day number, due_time (with
\* has_specific_time) and reminder_time (with reminder_needed) as minutes of
\* the day, NoTime where the field is absent.  The calls it makes to
\* schedule_task_reminder, each of which inserts one row, are recorded in
\* order as [time, kind].

\* ConfigManager._get_default_config: 'deadline_reminders'
DEADLINE_REMINDERS ==
    << [days_before |-> 2, time |-> Hours(9)],
       [days_before |-> 1, time |-> Hours(18)],
       [days_before |-> 0, time |-> Hours(10)],
       [days_before |-> 0, time |-> Hours(16)] >>
\* ConfigManager._get_default_config: 'time_based_reminders'
HOURS_BEFORE == << 3, 1 >>
MINUTES_BEFORE == << >>

\* variant: a candidate at now itself passes the test
IsFutureOrNow(reminder_datetime, t) == reminder_datetime >= t

\* "if reminder_datetime > datetime.now()"
IsFuture(reminder_datetime, t) == reminder_datetime > t

\* the block "if structured.get('reminder_needed') and structured.get('reminder_time')"
SpecificTimeCalls(st, t) ==
    IF st.reminder_time = NoTime THEN << >>
    ELSE LET reminder_date == IF t % DayMinutes > st.reminder_time
                              THEN DateOf(t) + 1 ELSE DateOf(t)
         IN << [time |-> reminder_date * DayMinutes + st.reminder_time,
                kind |-> "specific_time"] >>

\* the block "if structured.get('has_specific_time') and structured.get('due_time')"
TimeBasedCalls(st, t) ==
    IF st.due_time = NoTime THEN << >>
    ELSE LET event_datetime == st.due_date * DayMinutes + st.due_time
             by_hours == [i \in 1..Len(HOURS_BEFORE) |->
                             [time |-> event_datetime - Hours(HOURS_BEFORE[i]),
                              kind |-> "time_based"]]
             by_minutes == [i \in 1..Len(MINUTES_BEFORE) |->
                               [time |-> event_datetime - MINUTES_BEFORE[i],
                                kind |-> "time_based"]]
         IN SelectSeq(by_hours, LAMBDA c : IsFuture(c.time, t))
            \o SelectSeq(by_minutes, LAMBDA c : IsFuture(c.time, t))

\* the loop "for reminder_config in deadline_reminders"
DeadlineCalls(st, t) ==
    LET all == [i \in 1..Len(DEADLINE_REMINDERS) |->
                   [time |-> (st.due_date - DEADLINE_REMINDERS[i].days_before) * DayMinutes
                                + DEADLINE_REMINDERS[i].time,
                    kind |-> "deadline"]]
    IN SelectSeq(all, LAMBDA c : IsFuture(c.time, t))

\* _schedule_reminders: its schedule_task_reminder calls, in order
ScheduleRemindersCalls(st, t) ==
    SpecificTimeCalls(st, t)
    \o (IF st.due_date = NoTime THEN << >>
        ELSE TimeBasedCalls(st, t) \o DeadlineCalls(st, t))

\* tasks and call times under study
DueDates == { NoTime } \cup (2..MaxDays)
DayClocks == { NoTime, Hours(9), Hours(13) }
StructuredInputs == [due_date : DueDates, due_time : DayClocks, reminder_time : DayClocks]
DeriveTimes ==
    { d * DayMinutes + Hours(h) + j :
        d \in 0..MaxDays, h \in {9, 10, 12, 16, 18}, j \in -1..1 }

\* a message handler is about to call _schedule_reminders for a saved task
DeriveInit ==
    /\ now \in DeriveTimes
    /\ structured \in StructuredInputs
    /\ registered = << >>
    /\ pending_reminders = {}
    /\ pc = "handler"
    /\ tasks = [t \in TaskIds |-> "active"]
    /\ reminders = << >>
    /\ last_rowid = 0
    /\ reminder_queue = << >>
    /\ is_running = FALSE
    /\ wake_event = FALSE
    /\ last_daily_reload = NoTime
    /\ last_cleanup = NoTime
    /\ last_config_reload = NoTime
    /\ wake_time = NoTime
    /\ drain_now = NoTime
    /\ current = << >>
    /\ calls = [id \in 1..MaxReminders |-> 0]
    /\ acked = {}
    /\ beyond = {}
    /\ drain_start = << >>
    /\ popped = << >>
    /\ schedule_outcome = "none"
    /\ failed = << >>
    /\ restarts = 0

\* _schedule_reminders(task_id, user_id, structured)
ScheduleReminders ==
    /\ pc = "handler"
    /\ registered' = ScheduleRemindersCalls(structured, now)
    /\ pc' = "handled"
    /\ UNCHANGED << now, tasks, reminders, last_rowid, reminder_queue, is_running,
                    wake_event, last_daily_reload, last_cleanup, last_config_reload,
                    wake_time, drain_now, current, calls, acked, beyond, drain_start,
                    popped, schedule_outcome, failed, restarts, structured,
                    pending_reminders >>

DeriveNext == ScheduleReminders

DeriveSpec == DeriveInit /\ [][DeriveNext]_vars

\* -------------------------------------------------------------------- stop
\* stop_scheduler(), called by another coroutine on a running loop
StopScheduler ==
    /\ pc \in {"sleep", "deliver"}
    /\ is_running
    /\ is_running' = FALSE
    /\ wake_event' = TRUE
    /\ UNCHANGED << now, tasks, reminders, last_rowid, reminder_queue,
                    last_daily_reload, last_cleanup, last_config_reload,
                    pc, wake_time, drain_now, current, calls, acked, beyond,
                    drain_start, popped, schedule_outcome, aux >>

\* start_scheduler: "while self.is_running" is false, the coroutine returns
ExitLoop ==
    /\ pc = "check"
    /\ ~is_running
    /\ pc' = "stopped"
    /\ UNCHANGED << now, tasks, reminders, last_rowid, reminder_queue, is_running,
                    wake_event, last_daily_reload, last_cleanup, last_config_reload,
                    wake_time, drain_now, current, calls, acked, beyond,
                    drain_start, popped, schedule_outcome, aux >>

StopNext ==
    \/ Next
    \/ StopScheduler
    \/ ExitLoop

\* the steps of the start_scheduler coroutine that the event loop runs as soon
\* as the coroutine is runnable; the awaited delivery callback is not among
\* them, nothing in the code bounds it
LoopStep ==
    \/ LoadInitialReminders
    \/ CheckDailyTasks
    \/ SleepUntil
    \/ WakeByEvent
    \/ WakeByTimeout
    \/ BeginProcess
    \/ PopDue
    \/ EndProcess
    \/ ExitLoop

StopSpec == Init /\ [][StopNext]_vars /\ WF_vars(LoopStep)

\* ------------------------------------------------------------------ snooze
\* CallbackHandlers._handle_task_snooze: the buttons offer these minutes
SNOOZE_MINUTES == {15, 30, 60, 180, 1440}

\* _handle_task_snooze(query, user_id, task_id, minutes) with the
\* SmartReminderScheduler as reminder_scheduler: db.add_reminder, then
\* schedule_task_reminder, which calls db.add_reminder again and queues the
\* row it inserted (get_last_reminder_id); the handler awaits only after both.
\* The new fire time is taken among the observed instants.
HandleTaskSnooze(task_id, minutes) ==
    /\ Suspended
    /\ last_rowid + 2 <= MaxReminders
    /\ now + minutes \in TimeGrid
    /\ LET new_time == now + minutes
           first == last_rowid + 1
           id == last_rowid + 2
           r == Reminder(id, task_id, new_time)
           q == AddReminderToQueue(reminder_queue, r)
       IN /\ reminders' = AddReminderRow(AddReminderRow(reminders, first, task_id, new_time),
                                         id, task_id, new_time)
          /\ last_rowid' = id
          /\ IF WithinLookahead(new_time, now)
             THEN /\ reminder_queue' = q
                  /\ wake_event' = (wake_event \/ BecameEarliest(q, r))
             ELSE UNCHANGED << reminder_queue, wake_event >>
    /\ schedule_outcome' = "returned"
    /\ UNCHANGED << now, tasks, is_running, last_daily_reload, last_cleanup,
                    last_config_reload, pc, wake_time, drain_now, current,
                    calls, acked, beyond, drain_start, popped, aux >>

SnoozeNext ==
    \/ Next
    \/ \E task_id \in TaskIds, minutes \in SNOOZE_MINUTES : HandleTaskSnooze(task_id, minutes)

SnoozeSpec == Init /\ [][SnoozeNext]_vars

\* ------------------------------------------------------ ReminderScheduler
\* The polling scheduler: start_scheduler polls the store every check_interval
\* and delivers what get_pending_reminders returns.  Its coroutine suspends at
\* the awaited callback and at asyncio.sleep.  _check_condition_reminders does
\* not read or write reminders and is left out.
\* ConfigManager.get_check_interval: 3600 seconds
CHECK_INTERVAL == 60

PollTimes == { k * CHECK_INTERVAL + j : k \in 0..MaxPolls, j \in 0..MaxLate }
PollFireTimes == { k * CHECK_INTERVAL + j : k \in 0..1, j \in 0..MaxFireOffset }

\* time passes to the next observed instant; a sleeping poller resumes at most
\* MaxLate minutes after its interval elapsed
PollTick ==
    /\ Suspended
    /\ \E t \in PollTimes :
        /\ t > now
        /\ \A u \in PollTimes : u > now => t <= u
        /\ pc = "init" => t <= MaxLate
        /\ pc = "sleep" => t <= wake_time + MaxLate
        /\ now' = t
    /\ UNCHANGED << tasks, reminders, last_rowid, reminder_queue, is_running,
                    wake_event, last_daily_reload, last_cleanup, last_config_reload,
                    pc, wake_time, drain_now, current, calls, acked, beyond, drain_start,
                    popped, schedule_outcome, aux >>

\* ReminderScheduler.schedule_task_reminder: db.add_reminder only
PollScheduleTaskReminder(task_id, reminder_time) ==
    /\ Suspended
    /\ last_rowid < MaxReminders
    /\ reminders' = AddReminderRow(reminders, last_rowid + 1, task_id, reminder_time)
    /\ last_rowid' = last_rowid + 1
    /\ schedule_outcome' = "returned"
    /\ UNCHANGED << now, tasks, reminder_queue, is_running, wake_event,
                    last_daily_reload, last_cleanup, last_config_reload,
                    pc, wake_time, drain_now, current, calls, acked, beyond,
                    drain_start, popped, aux >>

\* ReminderScheduler.start_scheduler up to its while loop
PollStartScheduler ==
    /\ pc = "init"
    /\ is_running' = TRUE
    /\ pc' = "poll"
    /\ UNCHANGED << now, tasks, reminders, last_rowid, reminder_queue,
                    wake_event, last_daily_reload, last_cleanup, last_config_reload,
                    wake_time, drain_now, current, calls, acked, beyond, drain_start,
                    popped, schedule_outcome, aux >>

\* _check_and_send_reminders: "pending_reminders = self.db.get_pending_reminders()"
GetPendingReminders ==
    /\ pc = "poll"
    /\ is_running
    /\ pending_reminders' = PendingReminderIds(reminders, tasks, now)
    /\ drain_now' = now
    /\ drain_start' = OrderByTime(reminders, PendingReminderIds(reminders, tasks, now))
    /\ popped' = << >>
    /\ pc' = "iterate"
    /\ UNCHANGED << now, tasks, reminders, last_rowid, reminder_queue, is_running,
                    wake_event, last_daily_reload, last_cleanup, last_config_reload,
                    wake_time, current, calls, acked, beyond, schedule_outcome,
                    failed, restarts, structured, registered >>

\* _check_and_send_reminders: the for loop takes the next row (the query has
\* no ORDER BY: any order) and calls send_reminder_callback
PollNextReminder ==
    /\ pc = "iterate"
    /\ \E id \in pending_reminders :
        LET r == Reminder(id, reminders[id].task_id, reminders[id].reminder_time)
        IN /\ pending_reminders' = pending_reminders \ { id }
           /\ current' = r
           /\ calls' = [calls EXCEPT ![id] = @ + 1]
           /\ popped' = Append(popped, r)
    /\ pc' = "deliver"
    /\ UNCHANGED << now, tasks, reminders, last_rowid, reminder_queue, is_running,
                    wake_event, last_daily_reload, last_cleanup, last_config_reload,
                    wake_time, drain_now, acked, beyond, drain_start, schedule_outcome,
                    failed, restarts, structured, registered >>

\* the awaited callback returns: mark_reminder_sent, next row
PollCallbackReturns ==
    /\ pc = "deliver"
    /\ reminders' = AfterDelivery(reminders, current.id)
    /\ acked' = acked \cup { current.id }
    /\ current' = << >>
    /\ pc' = "iterate"
    /\ UNCHANGED << now, tasks, last_rowid, reminder_queue, is_running, wake_event,
                    last_daily_reload, last_cleanup, last_config_reload,
                    wake_time, drain_now, calls, beyond, drain_start, popped,
                    schedule_outcome, aux >>

\* the awaited callback raises: the except branch of the loop body logs
PollCallbackRaises ==
    /\ pc = "deliver"
    /\ reminders' = AfterFailure(reminders, current.id)
    /\ current' = << >>
    /\ pc' = "iterate"
    /\ UNCHANGED << now, tasks, last_rowid, reminder_queue, is_running, wake_event,
                    last_daily_reload, last_cleanup, last_config_reload,
                    wake_time, drain_now, calls, acked, beyond, drain_start, popped,
                    schedule_outcome, aux >>

\* the for loop is exhausted: "await asyncio.sleep(check_interval)"
PollSleep ==
    /\ pc = "iterate"
    /\ pending_reminders = {}
    /\ now + CHECK_INTERVAL \in PollTimes
    /\ wake_time' = now + CHECK_INTERVAL
    /\ pc' = "sleep"
    /\ UNCHANGED << now, tasks, reminders, last_rowid, reminder_queue, is_running,
                    wake_event, last_daily_reload, last_cleanup, last_config_reload,
                    drain_now, current, calls, acked, beyond, drain_start, popped,
                    schedule_outcome, aux >>

\* asyncio.sleep returned: back to "while self.is_running"
PollWake ==
    /\ pc = "sleep"
    /\ now >= wake_time
    /\ wake_time' = NoTime
    /\ pc' = "poll"
    /\ UNCHANGED << now, tasks, reminders, last_rowid, reminder_queue, is_running,
                    wake_event, last_daily_reload, last_cleanup, last_config_reload,
                    drain_now, current, calls, acked, beyond, drain_start, popped,
                    schedule_outcome, aux >>

PollNext ==
    \/ PollTick
    \/ \E task_id \in TaskIds, reminder_time \in PollFireTimes :
           PollScheduleTaskReminder(task_id, reminder_time)
    \/ \E task_id \in TaskIds : MarkTaskDone(task_id)
    \/ PollStartScheduler
    \/ GetPendingReminders
    \/ PollNextReminder
    \/ PollCallbackReturns
    \/ PollCallbackRaises
    \/ PollSleep
    \/ PollWake

PollSpec == Init /\ [][PollNext]_vars

\* ------------------------------------------------------------- the store
\* The store taken on its own, as an earlier run of the process left it: some
\* rows are sent (their callback returned once), some are not.  A scheduler
\* completes a delivery of a row, whatever its flag, and marks it sent.
StoreRows == [task_id : TaskIds, reminder_time : FireTimes, is_sent : BOOLEAN]

StoreInit ==
    /\ now = 0
    /\ tasks = [t \in TaskIds |-> "active"]
    /\ \E n \in 1..MaxReminders :
          /\ reminders \in [1..n -> StoreRows]
          /\ last_rowid = n
    /\ calls = [id \in 1..MaxReminders |->
                  IF id \in DOMAIN reminders /\ reminders[id].is_sent THEN 1 ELSE 0]
    /\ acked = { id \in DOMAIN reminders : reminders[id].is_sent }
    /\ reminder_queue = << >>
    /\ is_running = FALSE
    /\ wake_event = FALSE
    /\ last_daily_reload = NoTime
    /\ last_cleanup = NoTime
    /\ last_config_reload = NoTime
    /\ pc = "init"
    /\ wake_time = NoTime
    /\ drain_now = NoTime
    /\ current = << >>
    /\ beyond = {}
    /\ drain_start = << >>
    /\ popped = << >>
    /\ schedule_outcome = "none"
    /\ failed = << >>
    /\ restarts = 0
    /\ structured = << >>
    /\ registered = << >>
    /\ pending_reminders = {}

\* send_reminder_callback returned for the row and mark_reminder_sent(id) runs
DeliverAndMark(id) ==
    /\ id \in DOMAIN reminders
    /\ calls[id] < 2
    /\ calls' = [calls EXCEPT ![id] = @ + 1]
    /\ acked' = acked \cup { id }
    /\ reminders' = MarkReminderSent(reminders, id)
    /\ UNCHANGED << now, tasks, last_rowid, reminder_queue, is_running, wake_event,
                    last_daily_reload, last_cleanup, last_config_reload, pc,
                    wake_time, drain_now, current, beyond, drain_start, popped,
                    schedule_outcome, aux >>

StoreNext ==
    \/ Tick
    \/ \E task_id \in TaskIds : MarkTaskDone(task_id)
    \/ \E id \in 1..MaxReminders : DeliverAndMark(id)

StoreSpec == StoreInit /\ [][StoreNext]_vars

TypeOK ==
    /\ now \in TimeGrid \cup ClockTimes \cup DeriveTimes \cup PollTimes
    /\ pc \in {"init", "load", "check", "compute", "sleep", "process", "drain", "deliver",
              "handler", "handled", "stopped", "poll", "iterate"}
    /\ schedule_outcome \in {"none", "returned", "raised"}
    /\ Len(failed) <= MaxFaults
    /\ DOMAIN reminders \subseteq 1..MaxReminders
    /\ last_rowid \in 0..MaxReminders

\* ------------------------------------------------------------ properties
IsUnsent(id) == id \in DOMAIN reminders /\ ~reminders[id].is_sent
IsActive(id) == id \in DOMAIN reminders /\ tasks[reminders[id].task_id] = "active"
InFlight(id) == current # << >> /\ current.id = id
DueOf(q, t) == SelectSeq(q, LAMBDA e : e.time <= t)
NotDueOf(q, t) == SelectSeq(q, LAMBDA e : e.time > t)
\* no schedule_task_reminder has inserted into the queue during the drain pass
PassUndisturbed == Len(popped) + Len(reminder_queue) = Len(drain_start)

\* C1: after any insert, load, merge or drain step the queue is sorted
\* ascending by fire time: every adjacent pair (a, b) has a.time <= b.time.
C1_QueueSorted ==
    \A i \in 1..(Len(reminder_queue) - 1) :
        reminder_queue[i].time <= reminder_queue[i + 1].time

\* C1 witness: an entry inserted later sits before an earlier-inserted one
\* with a strictly later fire time.
C1_Witness ==
    \E i, j \in 1..Len(reminder_queue) :
        /\ i < j
        /\ reminder_queue[i].id > reminder_queue[j].id
        /\ reminder_queue[i].time < reminder_queue[j].time

\* C2: every reminder appears in the queue at most once: no reminder id
\* occurs twice, also when a queued reminder falls into a reload window.
C2_NoDuplicateIds ==
    \A id \in DOMAIN reminders : Occurrences(reminder_queue, id) <= 1

\* C3: the delivery callback is invoked at most once per reminder id, and
\* never for a reminder that is already marked sent.
C3_DeliveredAtMostOnce ==
    /\ \A id \in DOMAIN calls : calls[id] <= 1
    /\ \A id \in DOMAIN reminders : InFlight(id) => ~reminders[id].is_sent

\* C4: the startup load puts every unsent reminder of an active task whose
\* fire time is already past into the queue.
C4_PastDueLoaded ==
    [][(pc = "load" /\ pc' = "check") =>
          \A id \in DOMAIN reminders :
              (IsUnsent(id) /\ IsActive(id) /\ reminders[id].reminder_time < now)
                  => id \in QueueIds(reminder_queue')]_vars

\* C5: a reminder scheduled more than 72h ahead is stored unsent and is not
\* queued by schedule_task_reminder; a stored reminder that is not in the
\* queue enters it only through a load or reload whose window (up to
\* now + 72h) contains its fire time.
C5_BeyondHorizonNotQueued ==
    [][/\ last_rowid' # last_rowid =>
            /\ last_rowid' \in DOMAIN reminders'
            /\ ~reminders'[last_rowid'].is_sent
            /\ reminders'[last_rowid'].reminder_time > now + Hours(LOOKAHEAD_HOURS)
                   => last_rowid' \notin QueueIds(reminder_queue')
       /\ \A id \in DOMAIN reminders :
            (id \notin QueueIds(reminder_queue) /\ id \in QueueIds(reminder_queue'))
                => /\ pc \in {"load", "check"}
                   /\ reminders[id].reminder_time <= now + Hours(LOOKAHEAD_HOURS)]_vars

\* C5 witness: with the control loop asleep, a stored reminder lies beyond
\* now + 72h and is not in the queue.
C5_Witness ==
    /\ pc = "sleep"
    /\ \E id \in DOMAIN reminders :
        /\ reminders[id].reminder_time > now + Hours(LOOKAHEAD_HOURS)
        /\ id \notin QueueIds(reminder_queue)

\* C6: an unsent reminder of an active task that was scheduled beyond the
\* 72h horizon has been taken into the queue by a reload before its fire
\* time is reached, and while it waits no reload window has already moved
\* past its fire time (consecutive windows leave no fire time uncovered).
C6_AbsorbedBeforeFireTime ==
    \A id \in beyond :
        ( /\ IsUnsent(id)
          /\ IsActive(id)
          /\ id \notin QueueIds(reminder_queue)
          /\ calls[id] = 0 )
            => /\ reminders[id].reminder_time > now
               /\ last_daily_reload # NoTime =>
                      reminders[id].reminder_time >= last_daily_reload + Hours(RELOAD_FROM_HOURS)

\* C7: a drain pass that no insertion disturbs pops, in queue order, only
\* entries with fire time <= now; popped entries followed by the queue are
\* the queue the pass started with, and when the pass ends the popped
\* entries are exactly the due ones and the queue is the untouched rest (an
\* empty queue gives an empty pass).
C7_DrainRemovesDuePrefix ==
    (pc \in {"drain", "deliver"} /\ PassUndisturbed) =>
        /\ popped \o reminder_queue = drain_start
        /\ \A i \in 1..Len(popped) : popped[i].time <= drain_now
        /\ (pc = "drain" /\ ~HeadIsDue(reminder_queue, drain_now)) =>
              /\ popped = DueOf(drain_start, drain_now)
              /\ reminder_queue = NotDueOf(drain_start, drain_now)

\* C7 witness: an undisturbed pass has ended after popping a due entry with
\* the fire time equal to the pass's now, leaving a later entry in the queue.
C7_Witness ==
    /\ pc = "drain"
    /\ PassUndisturbed
    /\ ~HeadIsDue(reminder_queue, drain_now)
    /\ Len(popped) >= 1
    /\ popped[Len(popped)].time = drain_now
    /\ Len(reminder_queue) >= 1

\* C8: a reminder is marked sent only after its delivery callback returned
\* without raising.
C8_SentOnlyAfterDelivery ==
    \A id \in DOMAIN reminders : reminders[id].is_sent => id \in acked

\* C8 witness: the callback was invoked for a reminder and raised; the
\* reminder is unsent in the store.
C8_Witness ==
    \E id \in DOMAIN reminders :
        /\ calls[id] >= 1
        /\ ~InFlight(id)
        /\ id \notin acked
        /\ ~reminders[id].is_sent

\* C9: the control loop leaves a drain pass only when no entry with fire
\* time <= the pass's now is left in the queue, whatever the outcome of the
\* deliveries of the pass.
C9_FailureDoesNotStopDrain ==
    [][(pc \in {"drain", "deliver"} /\ pc' \notin {"drain", "deliver"}) =>
          \A i \in 1..Len(reminder_queue') : reminder_queue'[i].time > drain_now]_vars

\* C9 witness: in one pass the first delivery raised and a later entry of
\* the same pass was delivered and marked sent.
C9_Witness ==
    /\ pc = "drain"
    /\ \E i, j \in 1..Len(popped) :
        /\ i < j
        /\ popped[i].id # popped[j].id
        /\ popped[i].id \notin acked
        /\ IsUnsent(popped[i].id)
        /\ popped[j].id \in acked
        /\ popped[j].id \in DOMAIN reminders /\ reminders[popped[j].id].is_sent

\* C10: after a failed delivery the reminder is back in the queue or its
\* fire time can still fall into the window of a later reload (which starts
\* no earlier than now + 48h).
C10_FailedReminderRetried ==
    \A id \in DOMAIN reminders :
        ( /\ calls[id] >= 1
          /\ ~InFlight(id)
          /\ IsUnsent(id)
          /\ IsActive(id)
          /\ id \notin QueueIds(reminder_queue) )
            => reminders[id].reminder_time >= now + Hours(RELOAD_FROM_HOURS)

\* C11: every queue entry refers to a reminder that exists in the store and
\* is not marked sent.
C11_QueueOnlyUnsent ==
    \A i \in 1..Len(reminder_queue) :
        /\ reminder_queue[i].id \in DOMAIN reminders
        /\ ~reminders[reminder_queue[i].id].is_sent

\* C12: every queue entry has a fire time of at most now + 72h.
C12_QueueWithinLookahead ==
    \A i \in 1..Len(reminder_queue) :
        reminder_queue[i].time <= now + Hours(LOOKAHEAD_HOURS)

\* C12 witness: the queue holds an entry whose fire time is exactly
\* now + 72h, the last instant of the lookahead.
C12_Witness ==
    \E i \in 1..Len(reminder_queue) :
        reminder_queue[i].time = now + Hours(LOOKAHEAD_HOURS)

\* C13: the sent flag is monotonic: a reminder that is marked sent in the
\* store is, after any step, either still marked sent or deleted.
C13_SentMonotonic ==
    [][\A id \in DOMAIN reminders :
          reminders[id].is_sent =>
              (id \in DOMAIN reminders' => reminders'[id].is_sent)]_vars

\* C13 witness: a reminder is marked sent and afterwards a later row was
\* inserted, a daily reload ran and the 23:55 cleanup ran.
C13_Witness ==
    \E id \in DOMAIN reminders :
        /\ reminders[id].is_sent
        /\ last_rowid > id
        /\ last_daily_reload >= Hours(RELOAD_INTERVAL_HOURS)
        /\ last_cleanup # NoTime
        /\ HourOf(last_cleanup) = CLEANUP_HOUR

\* the unsent reminders of active tasks with fire time in [t + from, t + to]
InWindow(from, to) ==
    { id \in DOMAIN reminders :
        /\ IsUnsent(id)
        /\ IsActive(id)
        /\ now + Hours(from) <= reminders[id].reminder_time
        /\ reminders[id].reminder_time <= now + Hours(to) }

\* C14: the startup load leaves in the queue exactly the unsent reminders of
\* active tasks whose fire time lies in [now, now + 72h], each once, with
\* the stored task and time, in ascending order; whatever the queue held
\* before is gone.
C14_LoadReplacesWithWindow ==
    [][(pc = "load" /\ pc' = "check") =>
          /\ QueueIds(reminder_queue') = InWindow(0, LOOKAHEAD_HOURS)
          /\ Len(reminder_queue') = Cardinality(InWindow(0, LOOKAHEAD_HOURS))
          /\ \A i \in 1..Len(reminder_queue') :
                /\ reminder_queue'[i].time = reminders[reminder_queue'[i].id].reminder_time
                /\ reminder_queue'[i].task_id = reminders[reminder_queue'[i].id].task_id
          /\ \A i \in 1..(Len(reminder_queue') - 1) :
                reminder_queue'[i].time <= reminder_queue'[i + 1].time]_vars

\* C14 witness: right after the startup load the queue holds a reminder of
\* the window, a reminder that schedule_task_reminder had queued before the
\* start is no longer queued, being before the window.
C14_Witness ==
    /\ pc = "check"
    /\ last_daily_reload = now
    /\ now < Hours(RELOAD_INTERVAL_HOURS)
    /\ \E id \in DOMAIN reminders :
          /\ id \in QueueIds(reminder_queue)
          /\ reminders[id].reminder_time = now
    /\ \E id \in DOMAIN reminders :
          /\ id \notin beyond
          /\ calls[id] = 0
          /\ reminders[id].reminder_time < now
          /\ id \notin QueueIds(reminder_queue)

\* the check_daily_tasks step in which the daily reload runs
ReloadStep ==
    /\ pc = "check"
    /\ pc' = "compute"
    /\ ShouldReloadDb(now, last_daily_reload)

\* C15: the daily reload merges: the queue grows by exactly the number of
\* reminders of the [now + 48h, now + 72h] window that were not queued yet,
\* every entry queued before is still queued, and an entry that was at the
\* head with a fire time before the window stays at the head.
C15_ReloadMerges ==
    [][ReloadStep =>
          /\ Len(reminder_queue') = Len(reminder_queue)
                + Cardinality(InWindow(RELOAD_FROM_HOURS, LOOKAHEAD_HOURS) \ QueueIds(reminder_queue))
          /\ \A id \in DOMAIN reminders :
                Occurrences(reminder_queue', id) >= Occurrences(reminder_queue, id)
          /\ (reminder_queue # << >> /\ reminder_queue[1].time < now + Hours(RELOAD_FROM_HOURS))
                => reminder_queue'[1] = reminder_queue[1]]_vars

\* a schedule_task_reminder step that inserts into the queue
InsertStep ==
    /\ last_rowid' # last_rowid
    /\ Len(reminder_queue') = Len(reminder_queue) + 1

\* C16: an insertion sets the wake signal if the inserted entry is the head
\* of the queue after the insertion (the queue was empty, or every entry in
\* it has a later fire time) and leaves the signal as it was otherwise.
C16_SignalIffNewHead ==
    [][InsertStep =>
          /\ (reminder_queue'[1].id = last_rowid')
                <=> (\A i \in 1..Len(reminder_queue) :
                        reminder_queue[i].time > reminders'[last_rowid'].reminder_time)
          /\ IF reminder_queue'[1].id = last_rowid'
             THEN wake_event'
             ELSE wake_event' = wake_event]_vars

\* C16 witness: an entry inserted later than the other one has the earlier
\* fire time, is the head and the wake signal is set.
C16_Witness ==
    /\ Len(reminder_queue) = 2
    /\ reminder_queue[1].id > reminder_queue[2].id
    /\ reminder_queue[1].time < reminder_queue[2].time
    /\ wake_event

\* C17: the wake signal is level-triggered: once set it stays set through
\* every step of the control loop and of its callers until a sleep returns
\* by it (the only step that clears it), and a sleep that starts with the
\* signal set still has it set.
C17_WakeSignalLevelTriggered ==
    [][/\ (wake_event /\ ~wake_event') => (pc = "sleep" /\ pc' = "process")
       /\ (~wake_event /\ wake_event') =>
              (InsertStep /\ reminder_queue'[1].id = last_rowid')]_vars

\* C17 witness: during the delivery await of a drain pass an entry was
\* inserted that became the head; the callback has returned, the pass is
\* over without delivering that entry, and the signal is still set for the
\* sleep that follows.
C17_Witness ==
    /\ pc = "drain"
    /\ ~PassUndisturbed
    /\ wake_event
    /\ reminder_queue # << >>
    /\ reminder_queue[1].id = last_rowid
    /\ ~HeadIsDue(reminder_queue, drain_now)

\* C18: whenever the control loop is asleep and no wake signal is pending,
\* the instant it will wake at is not later than the fire time of the queue
\* head.
C18_SleepsNoLaterThanHead ==
    (pc = "sleep" /\ ~wake_event /\ reminder_queue # << >>)
        => wake_time <= reminder_queue[1].time

\* the instants get_next_wake_time chooses from, each taken strictly after
\* now: the fire time of the queue head, the last reload + 24h (now + 24h
\* when no reload is recorded), the next 23:55 and the next 03:00
WakeCandidates ==
    { c \in (IF reminder_queue # << >> THEN { reminder_queue[1].time } ELSE {})
            \cup { (IF last_daily_reload # NoTime THEN last_daily_reload ELSE now)
                       + Hours(RELOAD_INTERVAL_HOURS) }
            \cup { d * DayMinutes + Hours(CLEANUP_HOUR) + CLEANUP_MINUTE : d \in 0..(MaxDays + 1) }
            \cup { d * DayMinutes + Hours(CONFIG_RELOAD_HOUR) : d \in 0..(MaxDays + 1) } :
        c > now }

\* C19: where the control loop computes its wake time, the result is the
\* least candidate instant strictly after now: it is after now, it is a
\* candidate, no future candidate is earlier, so it is not later than a
\* head fire time that is in the future; now + 1h is returned only when no
\* candidate is in the future.
C19_NextWakeTimeIsEarliestFuture ==
    pc = "compute" =>
        LET wt == GetNextWakeTime(reminder_queue, last_daily_reload, now)
        IN /\ wt > now
           /\ WakeCandidates # {} => (wt \in WakeCandidates /\ \A c \in WakeCandidates : wt <= c)
           /\ (reminder_queue # << >> /\ reminder_queue[1].time > now)
                  => wt <= reminder_queue[1].time
           /\ wt = now + Hours(FALLBACK_SLEEP_HOURS) =>
                  (WakeCandidates = {} \/ now + Hours(FALLBACK_SLEEP_HOURS) \in WakeCandidates)

\* C19 witness: the wake time is computed with a queue head in the future
\* that is earlier than every maintenance instant, and it is the head's time.
C19_Witness ==
    /\ pc = "compute"
    /\ reminder_queue # << >>
    /\ reminder_queue[1].time > now
    /\ reminder_queue[1].time < now + Hours(CONFIG_RELOAD_HOUR)
    /\ GetNextWakeTime(reminder_queue, last_daily_reload, now) = reminder_queue[1].time

\* C20: a check_daily_tasks step reloads (merges the window into the queue
\* and records now as the last reload) only when a reload or the startup
\* load is recorded and lies at least 24h back, and leaves the queue and the
\* record alone otherwise; so two reloads, or the startup load and a reload,
\* are at least 24h apart and no two of them query the same window.
C20_ReloadAtMostDaily ==
    [][/\ (pc = "check" /\ pc' = "compute") =>
            IF last_daily_reload # NoTime
                  /\ now - last_daily_reload >= Hours(RELOAD_INTERVAL_HOURS)
            THEN last_daily_reload' = now
            ELSE /\ last_daily_reload' = last_daily_reload
                 /\ reminder_queue' = reminder_queue
       /\ last_daily_reload' # last_daily_reload =>
            /\ pc \in {"load", "check"}
            /\ last_daily_reload' = now
            /\ pc = "check" => last_daily_reload' >= last_daily_reload + Hours(RELOAD_INTERVAL_HOURS)]_vars

\* C20 witness: the second daily reload has just run, more than 24h after
\* the first one.
C20_Witness ==
    /\ pc = "compute"
    /\ last_daily_reload = now
    /\ now > Hours(2 * RELOAD_INTERVAL_HOURS)

\* C21: a maintenance check that finds no reload recorded (last_daily_reload
\* unset, the startup load having failed) runs the daily reload and records
\* it, the trigger instant of a never-run reload being now.
C21_UnsetReloadIsDue ==
    [][(pc = "check" /\ pc' = "compute" /\ last_daily_reload = NoTime)
          => last_daily_reload' = now]_vars

\* a check_daily_tasks step in which the retention cleanup / the config
\* reload ran: the timestamp is neither the old one nor its midnight default
CleanupRan ==
    /\ pc = "check" /\ pc' = "compute"
    /\ last_cleanup' \notin { last_cleanup, ReplaceClock(now, 0, 0) }
ConfigReloadRan ==
    /\ pc = "check" /\ pc' = "compute"
    /\ last_config_reload' \notin { last_config_reload, ReplaceClock(now, 0, 0) }

\* C22: the retention cleanup runs only at a time of day from 23:55 to
\* 23:59 with the last cleanup on an earlier date, the config reload only
\* from 03:00 to 03:04 with the last config reload on an earlier date; each
\* records now, so neither runs twice on one date, and a maintenance check
\* in which the cleanup does not run leaves the store alone.
C22_ClockPoliciesOncePerDate ==
    [][/\ CleanupRan =>
            /\ now % DayMinutes \in (Hours(23) + 55)..(Hours(23) + 59)
            /\ last_cleanup # NoTime
            /\ DateOf(last_cleanup) < DateOf(now)
            /\ last_cleanup' = now
       /\ ConfigReloadRan =>
            /\ now % DayMinutes \in Hours(3)..(Hours(3) + 4)
            /\ last_config_reload # NoTime
            /\ DateOf(last_config_reload) < DateOf(now)
            /\ last_config_reload' = now
       /\ (pc = "check" /\ pc' = "compute" /\ ~CleanupRan) => reminders' = reminders]_vars

\* C22 witness: a cleanup has just run at 23:59 and a config reload ran at
\* 03:04 of an earlier or the same day.
C22_Witness ==
    /\ pc = "compute"
    /\ last_cleanup = now
    /\ now % DayMinutes = DayMinutes - 1
    /\ last_config_reload # NoTime
    /\ last_config_reload % DayMinutes = Hours(3) + 4

\* C23: a maintenance check at a time of day from 23:55 on leaves the
\* cleanup recorded for today's date: on every day on which the loop is
\* running at 23:55, the first day after the start included, the retention
\* cleanup has run.
C23_CleanupEveryDay ==
    [][(pc = "check" /\ pc' = "compute"
            /\ HourOf(now) = CLEANUP_HOUR /\ MinuteOf(now) >= CLEANUP_MINUTE)
          => /\ DateOf(last_cleanup') = DateOf(now)
             /\ HourOf(last_cleanup') = CLEANUP_HOUR
             /\ MinuteOf(last_cleanup') >= CLEANUP_MINUTE]_vars

\* the rows a cleanup at the current time has to delete: sent, with a fire
\* time more than 7 days before now
Expired ==
    { id \in DOMAIN reminders :
        reminders[id].is_sent /\ reminders[id].reminder_time < now - RETENTION_DAYS * DayMinutes }

\* C24: a retention cleanup deletes exactly the rows that are sent and have
\* a fire time before now - 7 days and leaves every other row as it was: a
\* row at or after now - 7 days and an unsent row of any age are retained.
\* The number of deleted rows is the number of those rows.
C24_CleanupDeletesExpiredSent ==
    [][CleanupRan =>
          /\ DOMAIN reminders' = DOMAIN reminders \ Expired
          /\ \A id \in DOMAIN reminders' : reminders'[id] = reminders[id]
          /\ Cardinality(DOMAIN reminders) - Cardinality(DOMAIN reminders') = Cardinality(Expired)]_vars

\* C24 witness: a cleanup has just run; of two stored rows one is gone and
\* the one that is left is sent and has a fire time of exactly now - 7 days.
C24_Witness ==
    /\ pc = "compute"
    /\ last_cleanup = now
    /\ HourOf(now) = CLEANUP_HOUR
    /\ last_rowid = 2
    /\ \E id \in 1..2 :
          /\ DOMAIN reminders = { id }
          /\ reminders[id].is_sent
          /\ reminders[id].reminder_time = now - RETENTION_DAYS * DayMinutes

\* C25: after a restart and the recovery load, no reminder is lost: every
\* reminder of an active task that is unsent in the store and already due is
\* in the queue or being delivered (a reminder that is neither can only be
\* brought back by a load or reload, whose windows start at now or later).
C25_RestartLosesNoReminder ==
    (restarts > 0 /\ pc \notin {"init", "load"}) =>
        \A id \in DOMAIN reminders :
            (IsUnsent(id) /\ IsActive(id) /\ reminders[id].reminder_time < now)
                => (id \in QueueIds(reminder_queue) \/ InFlight(id))

\* the steps the control loop can take while a delivery callback has not
\* completed (every step of the loop but the callback's return or raise)
LoopStepWithoutCallback ==
    \/ StartScheduler
    \/ LoadInitialReminders
    \/ CheckDailyTasks
    \/ SleepUntil
    \/ WakeByEvent
    \/ WakeByTimeout
    \/ BeginProcess
    \/ PopDue
    \/ EndProcess

\* C26: while a delivery callback is awaited and another entry due in the
\* same drain pass is queued, the control loop can go on by itself, without
\* the callback completing (so a callback that never returns stalls nothing).
C26_HangingCallbackDoesNotStall ==
    (pc = "deliver" /\ HeadIsDue(reminder_queue, drain_now))
        => ENABLED LoopStepWithoutCallback

\* C27: a store call that raises in the startup load, the daily reload, the
\* retention cleanup or mark-sent leaves the control loop running and at the
\* position it reaches when the call succeeds: the loop is never ended.
C27_StoreFailureKeepsLoopRunning ==
    [][/\ pc' # "stopped"
       /\ (Len(failed') > Len(failed) /\ failed'[Len(failed')] # "add_reminder") =>
            /\ is_running'
            /\ pc = "load" => pc' = "check"
            /\ pc = "check" => pc' = "compute"
            /\ pc = "deliver" => pc' = "drain"]_vars

\* C27 witness: the query of a daily reload raised and the control loop has
\* gone on to its next sleep.
C27_Witness ==
    /\ failed = << "reload" >>
    /\ is_running
    /\ pc = "sleep"

\* C28: a schedule_task_reminder call whose store insert raises gives its
\* caller an error outcome.
C28_ScheduleFailureSurfaced ==
    [][(Len(failed') > Len(failed) /\ failed'[Len(failed')] = "add_reminder")
          => schedule_outcome' = "raised"]_vars

\* C29: schedule_task_reminder calls interleaved with the control loop lose
\* no update: every reminder of an active task that the call put into the
\* queue is still queued or has been dispatched; the queue is sorted; and the
\* last-reload timestamp only ever changes to the current time, in the
\* startup load or in a maintenance check.
C29_NoLostUpdate ==
    [][/\ \A id \in DOMAIN reminders' :
            (id \notin beyond' /\ tasks'[reminders'[id].task_id] = "active") =>
                \/ id \in QueueIds(reminder_queue')
                \/ calls'[id] >= 1
       /\ \A i \in 1..(Len(reminder_queue') - 1) :
            reminder_queue'[i].time <= reminder_queue'[i + 1].time
       /\ last_daily_reload' # last_daily_reload =>
            (pc \in {"load", "check"} /\ last_daily_reload' = now)]_vars

\* the candidate instants of the policy table for the task under study:
\* each (days before, clock time) pair of the deadline table on its day, of
\* kind deadline, and, when the due time is known, that time less each
\* hours or minutes offset, of kind time_based
TableCandidates ==
    IF structured.due_date = NoTime THEN {}
    ELSE { [time |-> (structured.due_date - DEADLINE_REMINDERS[i].days_before) * DayMinutes
                        + DEADLINE_REMINDERS[i].time,
            kind |-> "deadline"] : i \in 1..Len(DEADLINE_REMINDERS) }
         \cup (IF structured.due_time = NoTime THEN {}
               ELSE { [time |-> structured.due_date * DayMinutes + structured.due_time - 60 * h,
                       kind |-> "time_based"] : h \in {3, 1} })
FutureCandidates == { c \in TableCandidates : c.time > now }
\* the reminder a task with an explicit reminder time gets besides: the next
\* occurrence of that clock time, today's when now's clock time is not after it
ExplicitReminder ==
    IF structured.reminder_time = NoTime THEN {}
    ELSE { [time |-> (IF now % DayMinutes <= structured.reminder_time
                      THEN DateOf(now) ELSE DateOf(now) + 1) * DayMinutes
                        + structured.reminder_time,
            kind |-> "specific_time"] }
RegisteredSet == { registered[i] : i \in 1..Len(registered) }

\* C30 as stated: the rows registered for a task are exactly the candidates
\* of the policy table that lie strictly after now, one row per candidate.
C30_RegisteredAreFutureCandidates ==
    pc = "handled" =>
        /\ RegisteredSet = FutureCandidates
        /\ Len(registered) = Cardinality(FutureCandidates)

\* C30 amended: the rows registered for a task are, one row each, the
\* candidates of the policy table that lie strictly after now (for a
\* date-only task D-2d 09:00, D-1d 18:00, D 10:00, D 16:00 of kind deadline)
\* and, when the task carries an explicit reminder time, one more row of
\* kind specific_time at the next occurrence of that clock time, which is
\* now itself when now is exactly that time of day.
C30_RegisteredAreCandidatesAndExplicit ==
    pc = "handled" =>
        /\ RegisteredSet = FutureCandidates \cup ExplicitReminder
        /\ Len(registered) = Cardinality(FutureCandidates \cup ExplicitReminder)
        /\ (structured.reminder_time = NoTime /\ structured.due_time = NoTime
                /\ structured.due_date # NoTime
                /\ now < (structured.due_date - 2) * DayMinutes + Hours(9))
              => LET D == structured.due_date * DayMinutes
                 IN registered =
                      << [time |-> D - 2 * DayMinutes + Hours(9), kind |-> "deadline"],
                         [time |-> D - DayMinutes + Hours(18), kind |-> "deadline"],
                         [time |-> D + Hours(10), kind |-> "deadline"],
                         [time |-> D + Hours(16), kind |-> "deadline"] >>

\* C30 witness: for a date-only task with an explicit reminder time, handled
\* before its first table candidate, five rows are registered: the explicit
\* one and the four deadline rows.
C30_Witness ==
    /\ pc = "handled"
    /\ structured.due_date # NoTime
    /\ structured.due_time = NoTime
    /\ structured.reminder_time # NoTime
    /\ Len(registered) = 5
    /\ registered[1].kind = "specific_time"
    /\ \A i \in 2..5 : registered[i].kind = "deadline"

\* q2 is q with further entries put in: the entries of q are found in q2 in
\* their order, and every further entry of q2 stands after all entries of q
\* that have its fire time
MergedAfterEquals(q, q2) ==
    \E f \in [1..Len(q) -> 1..Len(q2)] :
        /\ \A i, j \in 1..Len(q) : i < j => f[i] < f[j]
        /\ \A i \in 1..Len(q) : q2[f[i]] = q[i]
        /\ \A j \in 1..Len(q2) :
              (\A i \in 1..Len(q) : f[i] # j)
                 => \A i \in 1..Len(q) : q[i].time = q2[j].time => f[i] < j

\* C31: entries of equal fire time keep their insertion order: an insertion
\* by schedule_task_reminder and a merge by the daily reload leave the
\* entries already queued in their order and place every new entry after all
\* queued entries of the same fire time, and every dispatch takes the head of
\* the queue, so that equal-time entries are dispatched in that order.
C31_TiesKeepInsertionOrder ==
    [][/\ (InsertStep \/ ReloadStep) => MergedAfterEquals(reminder_queue, reminder_queue')
       /\ calls' # calls =>
             /\ reminder_queue # << >>
             /\ calls' = [calls EXCEPT ![reminder_queue[1].id] = @ + 1]
             /\ reminder_queue' = Tail(reminder_queue)]_vars

\* C31 witness: two reminders with the same fire time, just past the window of
\* the startup load, were inserted one after the other while the loop was
\* running; the one inserted later stands behind the other.
C31_Witness ==
    /\ last_daily_reload = 0
    /\ beyond = {}
    /\ restarts = 0
    /\ Len(reminder_queue) = 2
    /\ reminder_queue[1].id = 1
    /\ reminder_queue[2].id = 2
    /\ reminder_queue[1].time = Hours(LOOKAHEAD_HOURS) + 1
    /\ reminder_queue[2].time = Hours(LOOKAHEAD_HOURS) + 1
\* C32: marking a reminder that is already sent leaves the store as it was
\* (same rows, same fire times, flag still set), and a sent reminder is in the
\* result of no unsent-window query (startup window, reload window) and of no
\* pending query.
C32_MarkSentIdempotent ==
    /\ [][\A id \in DOMAIN reminders :
             (calls'[id] = calls[id] + 1 /\ reminders[id].is_sent)
                => reminders' = reminders]_vars
    /\ [](\A id \in DOMAIN reminders :
             reminders[id].is_sent =>
                 /\ id \notin FutureReminderIds(reminders, tasks, now, LOOKAHEAD_HOURS, 0)
                 /\ id \notin FutureReminderIds(reminders, tasks, now, LOOKAHEAD_HOURS,
                                                RELOAD_FROM_HOURS)
                 /\ id \notin PendingReminderIds(reminders, tasks, now))

\* C32 witness: a row has been marked sent a second time; it is due, its task
\* is active, and it is still one sent row.
C32_Witness ==
    \E id \in DOMAIN reminders :
        /\ calls[id] = 2
        /\ reminders[id].is_sent
        /\ reminders[id].reminder_time <= now
        /\ tasks[reminders[id].task_id] = "active"

\* C33: the control loop never suspends in a sleep while the head of the
\* queue is due: when the wake time is computed with a head whose fire time
\* is <= now, the loop goes on to the drain, either without sleeping or
\* through a sleep that a pending wake signal ends at once.
C33_NoSleepWithDueHead ==
    [][(pc = "compute" /\ reminder_queue # << >> /\ reminder_queue[1].time <= now)
          => (pc' # "sleep" \/ wake_event')]_vars
\* C34: no reminder is delivered early: whenever the delivery callback is
\* invoked for a reminder, the fire time of its record is not after the time
\* the pass read when it started, which is not after the current time; this
\* includes entries inserted while the pass was awaiting a delivery.
C34_NoEarlyDelivery ==
    [][\A id \in 1..MaxReminders :
          calls'[id] > calls[id] =>
              /\ id \in DOMAIN reminders
              /\ reminders[id].reminder_time <= drain_now
              /\ drain_now <= now]_vars

\* C34 witness: a pass that began with one queued entry is delivering a
\* second reminder, inserted while the first delivery was awaited; its fire
\* time is not after the time the pass read.
C34_Witness ==
    /\ pc = "deliver"
    /\ Len(drain_start) = 1
    /\ Len(popped) = 2
    /\ current.id = last_rowid
    /\ current.id # drain_start[1].id
    /\ current.time <= drain_now
    /\ drain_now < now

\* C35: no reminder is delivered for a task that is not active: whenever the
\* delivery callback is invoked for a reminder, the task of its record is
\* active at that moment, also when the reminder was queued before the task
\* was marked done.
C35_NoDeliveryForDoneTask ==
    [][\A id \in 1..MaxReminders :
          calls'[id] > calls[id] =>
              /\ id \in DOMAIN reminders
              /\ tasks[reminders[id].task_id] = "active"]_vars

\* C36: a snooze, like every write into the reminder subsystem, creates
\* exactly one record in the store, with the requested fire time, and that
\* record is the one that is queued (once) when it lies within the lookahead,
\* so that it leads to one delivery.
C36_SnoozeCreatesOneRecord ==
    [][last_rowid' # last_rowid =>
          /\ last_rowid' = last_rowid + 1
          /\ DOMAIN reminders' = DOMAIN reminders \cup { last_rowid' }
          /\ \A id \in DOMAIN reminders' \ DOMAIN reminders :
                ~reminders'[id].is_sent
                   /\ Occurrences(reminder_queue', id)
                        = IF WithinLookahead(reminders'[id].reminder_time, now) THEN 1 ELSE 0]_vars

\* C37: when persisting fails inside schedule_task_reminder, the queue, the
\* wake signal and the store are left as they were, and at every moment each
\* queue entry has its record in the store, with the entry's fire time and
\* task.
C37_FailedPersistLeavesQueue ==
    /\ [][(Len(failed') > Len(failed) /\ failed'[Len(failed')] = "add_reminder")
             => /\ reminder_queue' = reminder_queue
                /\ wake_event' = wake_event
                /\ reminders' = reminders]_vars
    /\ [](\A i \in 1..Len(reminder_queue) :
             /\ reminder_queue[i].id \in DOMAIN reminders
             /\ reminders[reminder_queue[i].id].reminder_time = reminder_queue[i].time
             /\ reminders[reminder_queue[i].id].task_id = reminder_queue[i].task_id)

\* C37 witness: a schedule_task_reminder call failed to persist while the
\* loop was asleep over a queue of one entry; the entry is the only record,
\* no signal is pending.
C37_Witness ==
    /\ failed = << "add_reminder" >>
    /\ pc = "sleep"
    /\ ~wake_event
    /\ Len(reminder_queue) = 1
    /\ DOMAIN reminders = { reminder_queue[1].id }
    /\ last_rowid = 1

\* C38: after stop_scheduler() on a running loop the loop terminates: the
\* call sets the wake signal, so a sleep in progress ends; once stopped, the
\* loop starts no new sleep and leaves at its next loop test, that is after
\* at most one further drain pass; and it does reach its end.
C38_StopTerminates ==
    /\ [][(is_running /\ ~is_running') => wake_event']_vars
    /\ [][~is_running => (pc' = "sleep" => pc = "sleep")]_vars
    /\ [][(~is_running /\ pc = "check") => pc' \in {"check", "stopped"}]_vars
    /\ ((~is_running /\ pc \notin {"init", "stopped"}) ~> (pc = "stopped"))

\* C39: in the polling scheduler every poll selects every unsent reminder of
\* an active task with fire time <= now and, before it sleeps, has invoked
\* the callback for each selected reminder; a failed delivery leaves the
\* store as it was, so the reminder is selected again by every later poll
\* while it is unsent; and the callback is never invoked for a reminder that
\* is marked sent.
C39_PollRetriesUntilSent ==
    /\ [][(pc = "poll" /\ pc' = "iterate") =>
             pending_reminders' =
                 { id \in DOMAIN reminders :
                     /\ ~reminders[id].is_sent
                     /\ reminders[id].reminder_time <= now
                     /\ tasks[reminders[id].task_id] = "active" }]_vars
    /\ [][(pc = "iterate" /\ pc' = "sleep") => QueueIds(popped) = QueueIds(drain_start)]_vars
    /\ [][(pc = "deliver" /\ pc' = "iterate" /\ acked' = acked) => reminders' = reminders]_vars
    /\ [][\A id \in 1..MaxReminders :
             calls'[id] > calls[id] => (id \in DOMAIN reminders /\ ~reminders[id].is_sent)]_vars

\* C39 witness: a reminder whose first delivery failed was attempted again by
\* a later poll and is now marked sent, while the other reminder has been
\* attempted twice and is still unsent.
C39_Witness ==
    /\ pc = "sleep"
    /\ DOMAIN reminders = {1, 2}
    /\ calls[1] = 2
    /\ reminders[1].is_sent
    /\ calls[2] = 2
    /\ ~reminders[2].is_sent

====
